---- MODULE Spec2Model ----
(***************************************************************************)
(* State machine of the NFT staking lottery contract (src/src/lib.rs).     *)
(* Accounts are identified by their rank in the ascending (lexicographic)  *)
(* order of their address strings, so that 1 < 2 < 3 is the order of the   *)
(* addresses themselves.                                                   *)
(***************************************************************************)
EXTENDS Integers, Sequences, FiniteSets, TLC

\* ---------------------------------------------------------------- bounds
NumAccounts == 2
MaxStaked == 3
\* the nanoseconds past the whole second of the block times that are off it
SubSecond == 500000000

\* ------------------------------------------------------ program constants
MIN_STAKING_DAYS == 7
SECONDS_IN_DAY == 86400

Accounts == 1..NumAccounts
RewardToken == "reward_token"

\* Option<T>: None is the empty set, Some(x) the singleton
None == {}
Some(x) == {x}

\* error values: the messages of StdError::generic_err, and Ok
Ok == "Ok"
Unauthorized == "Unauthorized"
NoStakersToDraw == "No stakers to draw from"
NotStaked == "Not staked"
MinimumPeriodNotMet == "Minimum staking requirement not met"
NotWinner == "Not the winner"
NoWinnerToClaim == "No winner to claim"
Panic == "panic"

\* ------------------------------------------------------------- Timestamp
\* A Timestamp is a count of nanoseconds; it is kept as the pair
\* (whole seconds, nanoseconds below the second), nanos = seconds * 10^9 + subsec.
Timestamp(s, n) == [secs |-> s, subsec_nanos |-> n]

\* Timestamp::seconds(): the whole seconds, the sub-second part is dropped
seconds(t) == t.secs

\* Timestamp::plus_seconds()
plus_seconds(t, a) == [t EXCEPT !.secs = @ + a]

\* Timestamp's derived ordering (by nanoseconds)
TsLeq(a, b) ==
    \/ a.secs < b.secs
    \/ a.secs = b.secs /\ a.subsec_nanos <= b.subsec_nanos

TsLt(a, b) == TsLeq(a, b) /\ a # b

\* the block times the model draws from: the start, on and off a whole
\* second, and the last second before and the first second not before the
\* end of a minimum staking period that began at the start
StakingPeriod == MIN_STAKING_DAYS * SECONDS_IN_DAY
BlockTimes ==
    { Timestamp(0, 0), Timestamp(0, SubSecond),
      Timestamp(StakingPeriod - 1, 0),
      Timestamp(StakingPeriod, 0) }

\* the first byte of the host's random bytes (a u8)
RandomBytes == {1, 2, 255}

\* ------------------------------------------------------------ state
VARIABLES
    CONFIG,      \* Item<Config>
    state,       \* STATE: Item<State>
    STAKERS,     \* Map<String, Staker>: a function whose domain is the stored keys
    block_time,  \* env.block.time of the latest call
    call         \* the latest call: its inputs and its result

vars == <<CONFIG, state, STAKERS, block_time, call>>

Staker(at, n) == [staked_at |-> at, nft_count |-> n]

NoCall ==
    [op |-> "instantiate", sender |-> 0, seed |-> 0, err |-> Ok,
     messages |-> <<>>, winner |-> None, prize |-> 0, amount |-> 0,
     eligible |-> <<>>]

\* the result of a call that returns Err: no write is committed
Failed(op, sender, e) ==
    [NoCall EXCEPT !.op = op, !.sender = sender, !.err = e]

\* instantiate with a pot that is not empty
InitFunded ==
    /\ \E admin \in Accounts :
         CONFIG = [admin |-> admin, nft_contract |-> "nft_contract", reward_token |-> RewardToken]
    /\ state = [total_staked |-> 0, current_pot |-> 1, last_winner |-> None, stakers |-> {}]
    /\ STAKERS = <<>>
    /\ block_time \in { t \in BlockTimes : seconds(t) = 0 }
    /\ call = NoCall

Init ==
    /\ \E admin \in Accounts :
         CONFIG = [admin |-> admin, nft_contract |-> "nft_contract", reward_token |-> RewardToken]
    /\ state = [total_staked |-> 0, current_pot |-> 0, last_winner |-> None, stakers |-> {}]
    /\ STAKERS = <<>>
    /\ block_time \in { t \in BlockTimes : seconds(t) = 0 }
    /\ call = NoCall

\* env.block.time of a call: block time never goes back
NextBlockTime(t) ==
    /\ t \in BlockTimes
    /\ TsLeq(block_time, t)
    /\ block_time' = t

\* ------------------------------------------------------------ execute_stake
\* Map::may_load is Some exactly for the stored keys
is_some(key) == key \in DOMAIN STAKERS

\* Map::save
save(key, staker) == [k \in DOMAIN STAKERS \cup {key} |-> IF k = key THEN staker ELSE STAKERS[k]]

\* Map::remove
remove(key) == [k \in DOMAIN STAKERS \ {key} |-> STAKERS[k]]

\* stake that counts an account, not a unit
stake_state_per_account(sender) ==
    [state EXCEPT !.stakers = @ \cup {sender},
                  !.total_staked = IF sender \in state.stakers THEN @ ELSE @ + 1]

\* stake that forgets to insert the account into the staker set
stake_state_no_insert(sender) == [state EXCEPT !.total_staked = @ + 1]

\* the aggregate after a stake
stake_state(sender) ==
    [state EXCEPT !.stakers = @ \cup {sender}, !.total_staked = @ + 1]

\* stake that stamps the record with the time of every stake
load_or_refresh(sender, t) ==
    IF is_some(sender) THEN [STAKERS[sender] EXCEPT !.staked_at = t] ELSE Staker(t, 0)

\* may_load(..).unwrap_or(Staker { staked_at: env.block.time, nft_count: 0 })
load_or_default(sender, t) ==
    IF is_some(sender) THEN STAKERS[sender] ELSE Staker(t, 0)

execute_stake(sender, t) ==
    LET staker == load_or_default(sender, t)
    IN  /\ state.total_staked < MaxStaked
        /\ NextBlockTime(t)
        /\ STAKERS' = save(sender, [staker EXCEPT !.nft_count = @ + 1])
        /\ state' = stake_state(sender)
        /\ call' = [NoCall EXCEPT !.op = "stake", !.sender = sender]
        /\ UNCHANGED CONFIG

\* ---------------------------------------------------------- execute_unstake
\* the minimum staking requirement, on whole seconds
period_not_met(time_diff) == time_diff < MIN_STAKING_DAYS * SECONDS_IN_DAY

\* unstake that forgets to take the account out of the staker set
unstake_state_no_remove(sender) == [state EXCEPT !.total_staked = @ - 1]

\* unstake that forgets to count the unit down in the aggregate
unstake_state_no_count(sender) == [state EXCEPT !.stakers = @ \ {sender}]

\* the aggregate after an unstake
unstake_state(sender) ==
    [state EXCEPT !.stakers = @ \ {sender}, !.total_staked = @ - 1]

\* unstake that saves the record whatever its count
unstake_record_always_save(sender, staker) ==
    save(sender, [staker EXCEPT !.nft_count = @ - 1])

\* the records after an unstake: the record is removed at count zero
unstake_record(sender, staker) ==
    IF staker.nft_count - 1 = 0
    THEN remove(sender)
    ELSE save(sender, [staker EXCEPT !.nft_count = @ - 1])

\* unstake that updates the aggregate before the period test and keeps the
\* update when the test fails
execute_unstake_write_first(sender, t) ==
    /\ NextBlockTime(t)
    /\ UNCHANGED CONFIG
    /\ IF ~is_some(sender)
       THEN /\ call' = Failed("unstake", sender, NotStaked)
            /\ UNCHANGED <<state, STAKERS>>
       ELSE LET staker == STAKERS[sender]
                time_diff == seconds(t) - seconds(staker.staked_at)
            IN  IF time_diff < 0 \/ staker.nft_count = 0 \/ state.total_staked = 0
                THEN /\ call' = Failed("unstake", sender, Panic)
                     /\ UNCHANGED <<state, STAKERS>>
                ELSE IF period_not_met(time_diff)
                THEN /\ call' = Failed("unstake", sender, MinimumPeriodNotMet)
                     /\ state' = unstake_state(sender)
                     /\ UNCHANGED STAKERS
                ELSE /\ STAKERS' = unstake_record(sender, staker)
                     /\ state' = unstake_state(sender)
                     /\ call' = [NoCall EXCEPT !.op = "unstake", !.sender = sender]

execute_unstake(sender, t) ==
    /\ NextBlockTime(t)
    /\ UNCHANGED CONFIG
    /\ IF ~is_some(sender)
       THEN /\ call' = Failed("unstake", sender, NotStaked)
            /\ UNCHANGED <<state, STAKERS>>
       ELSE LET staker == STAKERS[sender]
                time_diff == seconds(t) - seconds(staker.staked_at)
            IN  IF time_diff < 0
                THEN \* u64 subtraction below zero
                     /\ call' = Failed("unstake", sender, Panic)
                     /\ UNCHANGED <<state, STAKERS>>
                ELSE IF period_not_met(time_diff)
                THEN /\ call' = Failed("unstake", sender, MinimumPeriodNotMet)
                     /\ UNCHANGED <<state, STAKERS>>
                ELSE IF staker.nft_count = 0 \/ state.total_staked = 0
                THEN \* u64 subtraction below zero
                     /\ call' = Failed("unstake", sender, Panic)
                     /\ UNCHANGED <<state, STAKERS>>
                ELSE /\ STAKERS' = unstake_record(sender, staker)
                     /\ state' = unstake_state(sender)
                     /\ call' = [NoCall EXCEPT !.op = "unstake", !.sender = sender]

\* ------------------------------------------------------ execute_draw_winner
\* the byte taken as the index, without the remainder
random_index_no_rem(byte, len) == byte

\* random_bytes[0] as usize % state.stakers.len()
random_index(byte, len) == byte % len

\* HashSet::iter: the members in an order the set does not fix
iter(set) ==
    { order \in [1..Cardinality(set) -> set] : { order[i] : i \in DOMAIN order } = set }

\* Iterator::nth, counting from 0
nth(order, n) == IF n < Len(order) THEN Some(order[n + 1]) ELSE None

\* draw without the admin check
unauthorized_never(sender) == FALSE

\* the caller is not the admin
unauthorized(sender) == sender # CONFIG.admin

\* draw without the emptiness check
no_stakers_never == FALSE

\* there is no staker to draw from
no_stakers == state.stakers = {}

\* the aggregate after a draw
draw_state(picked) == [state EXCEPT !.last_winner = picked, !.current_pot = 0]

execute_draw_winner(sender, t, byte) ==
    /\ NextBlockTime(t)
    /\ UNCHANGED <<CONFIG, STAKERS>>
    /\ IF unauthorized(sender)
       THEN /\ call' = Failed("draw_winner", sender, Unauthorized)
            /\ UNCHANGED state
       ELSE IF no_stakers
       THEN /\ call' = Failed("draw_winner", sender, NoStakersToDraw)
            /\ UNCHANGED state
       ELSE \E order \in iter(state.stakers) :
              LET len == Cardinality(state.stakers)
                  picked == IF len = 0 THEN None ELSE nth(order, random_index(byte, len))
              IN  IF picked = None
                  THEN \* remainder by zero, or unwrap of None
                       /\ call' = [Failed("draw_winner", sender, Panic) EXCEPT !.seed = byte]
                       /\ UNCHANGED state
                  ELSE /\ state' = draw_state(picked)
                       /\ call' = [NoCall EXCEPT !.op = "draw_winner", !.sender = sender,
                                                 !.seed = byte, !.winner = picked,
                                                 !.prize = state.current_pot]

\* ----------------------------------------------------- execute_claim_reward
\* Cw20ExecuteMsg::Transfer wrapped in WasmMsg::Execute
TransferMsg(contract_addr, recipient, amount) ==
    [contract_addr |-> contract_addr, recipient |-> recipient, amount |-> amount]

\* claim paying the staked total
transfer_msg_total(sender) == TransferMsg(CONFIG.reward_token, sender, state.total_staked)

\* the message of a claim by sender
transfer_msg(sender) == TransferMsg(CONFIG.reward_token, sender, state.current_pot)

\* claim without the test for a winner
no_winner_never == FALSE

\* no draw has set a winner
no_winner == state.last_winner = None

\* claim open to any caller
not_winner_never(sender) == FALSE

\* the caller is not the last winner
not_winner(sender) == Some(sender) # state.last_winner

\* claim that clears the winner once paid
execute_claim_reward_once(sender, t) ==
    /\ NextBlockTime(t)
    /\ UNCHANGED <<CONFIG, STAKERS>>
    /\ IF ~no_winner
       THEN IF not_winner(sender)
            THEN /\ call' = Failed("claim_reward", sender, NotWinner)
                 /\ UNCHANGED state
            ELSE /\ call' = [NoCall EXCEPT
                               !.op = "claim_reward", !.sender = sender,
                               !.messages = <<transfer_msg(sender)>>,
                               !.winner = Some(sender), !.amount = state.current_pot]
                 /\ state' = [state EXCEPT !.last_winner = None]
       ELSE /\ call' = Failed("claim_reward", sender, NoWinnerToClaim)
            /\ UNCHANGED state

execute_claim_reward(sender, t) ==
    /\ NextBlockTime(t)
    /\ UNCHANGED <<CONFIG, state, STAKERS>>
    /\ IF ~no_winner
       THEN IF not_winner(sender)
            THEN call' = Failed("claim_reward", sender, NotWinner)
            ELSE call' = [NoCall EXCEPT
                            !.op = "claim_reward", !.sender = sender,
                            !.messages = <<transfer_msg(sender)>>,
                            !.winner = Some(sender), !.amount = state.current_pot]
       ELSE call' = Failed("claim_reward", sender, NoWinnerToClaim)

\* --------------------------------------------------- query_eligible_stakers
RECURSIVE range_ascending(_)
\* Map::range(.., None, None, Order::Ascending): the stored keys, lowest first
range_ascending(keys) ==
    IF keys = {} THEN <<>>
    ELSE LET k == CHOOSE x \in keys : \A y \in keys : x <= y
         IN  <<k>> \o range_ascending(keys \ {k})

\* the test with the bound left out of the period
is_eligible_strict(staker, now) ==
    TsLt(plus_seconds(staker.staked_at, MIN_STAKING_DAYS * SECONDS_IN_DAY), now)

\* the staker has met the minimum staking requirement at now
is_eligible(staker, now) ==
    TsLeq(plus_seconds(staker.staked_at, MIN_STAKING_DAYS * SECONDS_IN_DAY), now)

\* the (address, staker) pairs pushed while ranging over the records
eligible_stakers(now) ==
    LET met(k) == is_eligible(STAKERS[k], now)
        picked == SelectSeq(range_ascending(DOMAIN STAKERS), met)
    IN  [i \in 1..Len(picked) |-> <<picked[i], STAKERS[picked[i]]>>]

\* QueryMsg::GetEligibleStakers
query_eligible_stakers(t) ==
    /\ NextBlockTime(t)
    /\ UNCHANGED <<CONFIG, state, STAKERS>>
    /\ call' = [NoCall EXCEPT !.op = "get_eligible_stakers", !.eligible = eligible_stakers(t)]

Next ==
    \/ \E t \in BlockTimes : query_eligible_stakers(t)
    \/ \E a \in Accounts, t \in BlockTimes : execute_stake(a, t)
    \/ \E a \in Accounts, t \in BlockTimes : execute_unstake(a, t)
    \/ \E a \in Accounts, t \in BlockTimes, byte \in RandomBytes : execute_draw_winner(a, t, byte)
    \/ \E a \in Accounts, t \in BlockTimes : execute_claim_reward(a, t)

Spec == Init /\ [][Next]_vars

\* ================================================================ properties
RECURSIVE SumNft(_)
\* the sum of nft_count over a set of stored keys
SumNft(keys) ==
    IF keys = {} THEN 0
    ELSE LET k == CHOOSE x \in keys : TRUE
         IN  STAKERS[k].nft_count + SumNft(keys \ {k})

\* the members of a set in ascending order of account identity
Ascending(set) ==
    CHOOSE order \in iter(set) : \A i, j \in DOMAIN order : i < j => order[i] < order[j]

\* C1: after every call, successful or failed, total_staked is the sum of
\* nft_count over all stored staker records.
TotalStakedIsSum == state.total_staked = SumNft(DOMAIN STAKERS)

\* a partial unstake has happened while both accounts hold records
TotalStakedIsSumWitness ==
    /\ call.op = "unstake" /\ call.err = Ok
    /\ DOMAIN STAKERS = Accounts
    /\ call.sender \in DOMAIN STAKERS
    /\ state.total_staked >= 2

\* C2: an account is in state.stakers exactly when it has a record with
\* nft_count > 0; in particular it still is after an unstake that leaves
\* its nft_count above zero.
StakersIffRecord ==
    state.stakers = { a \in DOMAIN STAKERS : STAKERS[a].nft_count > 0 }

\* C3: for an account with a record with nft_count > 0, unstake at a block
\* time strictly before staked_at + 7 days fails with the minimum-period
\* error, and unstake at or after staked_at + 7 days succeeds.
UnstakePeriodGate ==
    [][ (/\ call'.op = "unstake"
         /\ call'.sender \in DOMAIN STAKERS
         /\ STAKERS[call'.sender].nft_count > 0)
        => IF TsLt(block_time', plus_seconds(STAKERS[call'.sender].staked_at, StakingPeriod))
           THEN call'.err = MinimumPeriodNotMet
           ELSE call'.err = Ok ]_vars

\* C4: after every successful draw current_pot is 0 and last_winner is a member
\* of state.stakers as it was when the draw ran; the index is within the set,
\* so an admin's draw over a non-empty set always succeeds.
DrawPicksStaker ==
    [][ call'.op = "draw_winner" =>
          /\ call'.err = Ok =>
               /\ state'.current_pot = 0
               /\ Cardinality(state'.last_winner) = 1
               /\ state'.last_winner \subseteq state.stakers
          /\ (call'.sender = CONFIG.admin /\ state.stakers # {}) => call'.err = Ok ]_vars

\* a draw whose byte exceeds the number of stakers has picked a winner
DrawPicksStakerWitness ==
    /\ call.op = "draw_winner" /\ call.err = Ok
    /\ call.seed = 255
    /\ Cardinality(state.stakers) = 2
    /\ state.last_winner # None
    /\ state.current_pot = 0

\* C5: a draw by any account but the admin fails with Unauthorized, whatever
\* the staker set, and leaves last_winner and current_pot as they were.
DrawUnauthorized ==
    [][ (call'.op = "draw_winner" /\ call'.sender # CONFIG.admin)
        => /\ call'.err = Unauthorized
           /\ state'.last_winner = state.last_winner
           /\ state'.current_pot = state.current_pot ]_vars

\* a non-admin has been refused a draw over a non-empty staker set
DrawUnauthorizedWitness ==
    /\ call.op = "draw_winner" /\ call.err = Unauthorized
    /\ call.sender # CONFIG.admin
    /\ state.stakers # {}

\* C6: the winner of a draw is the element, at the index derived from the
\* seed, of state.stakers enumerated in ascending order of account identity,
\* so that the same members and the same seed give the same winner.
DrawDeterministic ==
    [][ (call'.op = "draw_winner" /\ call'.err = Ok)
        => state'.last_winner =
             nth(Ascending(state.stakers),
                 random_index(call'.seed, Cardinality(state.stakers))) ]_vars

\* C7: once a winner is set, a claim by any other account fails with
\* NotWinner, and a claim by the winner succeeds with exactly one message, to
\* the reward token, whose recipient is the caller; also when the winner no
\* longer has a record.
ClaimOnlyByWinner ==
    [][ (call'.op = "claim_reward" /\ state.last_winner # None)
        => IF Some(call'.sender) = state.last_winner
           THEN /\ call'.err = Ok
                /\ Len(call'.messages) = 1
                /\ call'.messages[1].contract_addr = CONFIG.reward_token
                /\ call'.messages[1].recipient = call'.sender
           ELSE /\ call'.err = NotWinner
                /\ call'.messages = <<>> ]_vars

\* the winner has claimed after unstaking everything
ClaimOnlyByWinnerWitness ==
    /\ call.op = "claim_reward" /\ call.err = Ok
    /\ Len(call.messages) = 1
    /\ call.sender \notin DOMAIN STAKERS

\* C8: the amount of the message of a successful claim is current_pot as it is
\* when the claim runs.
ClaimPaysCurrentPot ==
    [][ (call'.op = "claim_reward" /\ call'.err = Ok)
        => /\ Len(call'.messages) = 1
           /\ call'.messages[1].amount = state.current_pot ]_vars

\* the winner has claimed while units are staked
ClaimPaysCurrentPotWitness ==
    /\ call.op = "claim_reward" /\ call.err = Ok
    /\ call.messages[1].amount = state.current_pot
    /\ state.total_staked > 0

\* C9: while no draw has succeeded (last_winner unset), a claim by any caller
\* fails with NoWinnerToClaim and carries no message.
ClaimBeforeDraw ==
    [][ (call'.op = "claim_reward" /\ state.last_winner = None)
        => /\ call'.err = NoWinnerToClaim
           /\ call'.messages = <<>> ]_vars

\* a claim has been refused for want of a winner while units are staked
ClaimBeforeDrawWitness ==
    /\ call.op = "claim_reward" /\ call.err = NoWinnerToClaim
    /\ state.last_winner = None
    /\ state.stakers # {}

\* C10: a draw by the admin while state.stakers is empty fails with
\* NoStakersToDraw and leaves last_winner and current_pot as they were.
DrawNoStakers ==
    [][ (call'.op = "draw_winner" /\ call'.sender = CONFIG.admin /\ state.stakers = {})
        => /\ call'.err = NoStakersToDraw
           /\ state'.last_winner = state.last_winner
           /\ state'.current_pot = state.current_pot ]_vars

\* the admin has been refused a draw after an earlier draw had a winner
DrawNoStakersWitness ==
    /\ call.op = "draw_winner" /\ call.err = NoStakersToDraw
    /\ call.sender = CONFIG.admin
    /\ state.last_winner # None

\* C11: while an account's record exists its staked_at never changes, whether
\* the account stakes again or unstakes in part; staked_at is the block time
\* of the stake that creates the record (the first, or one after a removal).
StakedAtFixed ==
    [][ \A a \in DOMAIN STAKERS' :
          IF a \in DOMAIN STAKERS
          THEN STAKERS'[a].staked_at = STAKERS[a].staked_at
          ELSE /\ call'.op = "stake" /\ call'.sender = a
               /\ STAKERS'[a].staked_at = block_time' ]_vars

\* an account has staked a further unit at a block time after its staked_at
StakedAtFixedWitness ==
    /\ call.op = "stake"
    /\ STAKERS[call.sender].nft_count >= 2
    /\ STAKERS[call.sender].staked_at # block_time

\* C16: every stored staker record has nft_count >= 1: the unstake that brings
\* the count to 0 removes the record, and no call stores a count of 0.
RecordsArePositive == \A a \in DOMAIN STAKERS : STAKERS[a].nft_count >= 1

\* an unstake has removed the record of an account that held one unit
RecordsArePositiveWitness ==
    /\ call.op = "unstake" /\ call.err = Ok
    /\ call.sender \notin DOMAIN STAKERS
    /\ DOMAIN STAKERS # {}

\* C12: a call that returns an error leaves the whole stored state as it was:
\* the staker records and the aggregate (total_staked, stakers, current_pot,
\* last_winner) are the same before and after it.
ErrorsChangeNothing ==
    [][ call'.err # Ok => (state' = state /\ STAKERS' = STAKERS /\ CONFIG' = CONFIG) ]_vars

\* an unstake has been refused before the end of the period, with units staked
ErrorsChangeNothingWitness ==
    /\ call.op = "unstake" /\ call.err = MinimumPeriodNotMet
    /\ call.sender \in state.stakers
    /\ state.total_staked >= 2

\* C14: a claim changes nothing that is stored: last_winner and current_pot
\* stay, so after a successful claim the caller is still the last winner and a
\* further claim by the same account succeeds as well.
ClaimChangesNothing ==
    [][ call'.op = "claim_reward" =>
          /\ state' = state /\ STAKERS' = STAKERS /\ CONFIG' = CONFIG
          /\ call'.err = Ok => state'.last_winner = Some(call'.sender)
          /\ (call.op = "claim_reward" /\ call.err = Ok /\ call'.sender = call.sender)
               => call'.err = Ok ]_vars

\* the winner, still staked, has claimed a whole staking period after the
\* start and is still the last winner
ClaimChangesNothingWitness ==
    /\ call.op = "claim_reward" /\ call.err = Ok
    /\ state.last_winner = Some(call.sender)
    /\ seconds(block_time) >= StakingPeriod
    /\ call.sender \in state.stakers

\* C17: a stake succeeds and changes only the caller's record (nft_count + 1),
\* state.stakers (the caller is added) and total_staked (+ 1); the other
\* records, current_pot and last_winner stay. last_winner is changed only by a
\* successful draw and, once set, is never unset.
StakeFrame ==
    [][ /\ call'.op = "stake" =>
             LET a == call'.sender IN
             /\ call'.err = Ok
             /\ DOMAIN STAKERS' = DOMAIN STAKERS \cup {a}
             /\ STAKERS'[a].nft_count =
                  (IF a \in DOMAIN STAKERS THEN STAKERS[a].nft_count ELSE 0) + 1
             /\ \A b \in DOMAIN STAKERS \ {a} : STAKERS'[b] = STAKERS[b]
             /\ state'.stakers = state.stakers \cup {a}
             /\ state'.total_staked = state.total_staked + 1
             /\ state'.current_pot = state.current_pot
             /\ state'.last_winner = state.last_winner
        /\ state'.last_winner # state.last_winner
             => (call'.op = "draw_winner" /\ call'.err = Ok)
        /\ state.last_winner # None => state'.last_winner # None ]_vars

\* an account has staked beside another account's record after a draw
StakeFrameWitness ==
    /\ call.op = "stake" /\ call.err = Ok
    /\ DOMAIN STAKERS = Accounts
    /\ state.last_winner # None
    /\ state.last_winner # Some(call.sender)

\* C18: current_pot is 0 in every reachable state, since no handler raises it;
\* hence the prize of every draw and the amount of every claim's message is 0.
PotIsZero ==
    /\ state.current_pot = 0
    /\ call.prize = 0
    /\ call.amount = 0
    /\ \A i \in DOMAIN call.messages : call.messages[i].amount = 0

\* the winner of a draw over staked units has claimed
PotIsZeroWitness ==
    /\ call.op = "claim_reward" /\ call.err = Ok
    /\ Len(call.messages) = 1
    /\ state.total_staked = MaxStaked

\* C19: state.stakers is always a subset of the accounts that have a record
\* with nft_count >= 1, so the winner of a successful draw has such a record
\* when the draw runs.
StakersHaveRecords ==
    [][ /\ state'.stakers \subseteq { a \in DOMAIN STAKERS' : STAKERS'[a].nft_count >= 1 }
        /\ (call'.op = "draw_winner" /\ call'.err = Ok)
             => state'.last_winner \subseteq { a \in DOMAIN STAKERS : STAKERS[a].nft_count >= 1 } ]_vars

\* a draw has picked a winner while another account's record is out of the set
StakersHaveRecordsWitness ==
    /\ call.op = "draw_winner" /\ call.err = Ok
    /\ call.winner \subseteq DOMAIN STAKERS
    /\ state.stakers # DOMAIN STAKERS

\* C15: when accounts A and B each hold one staked unit and A unstakes at or
\* after staked_at + 7 days, the unstake succeeds and leaves total_staked = 1,
\* no record for A and state.stakers = {B}; an admin's draw over {B} then sets
\* last_winner to B for every seed and leaves current_pot 0; and a claim by B
\* as last winner succeeds with one message of amount 0.
ScenarioTwoStakers ==
    [][ \A A \in Accounts : \A B \in Accounts \ {A} :
          /\ (/\ call'.op = "unstake" /\ call'.sender = A
              /\ DOMAIN STAKERS = {A, B}
              /\ STAKERS[A].nft_count = 1 /\ STAKERS[B].nft_count = 1
              /\ state.stakers = {A, B} /\ state.total_staked = 2
              /\ TsLeq(plus_seconds(STAKERS[A].staked_at, StakingPeriod), block_time'))
             => /\ call'.err = Ok
                /\ state'.total_staked = 1
                /\ DOMAIN STAKERS' = {B}
                /\ state'.stakers = {B}
          /\ (/\ call'.op = "draw_winner" /\ call'.sender = CONFIG.admin
              /\ state.stakers = {B})
             => /\ call'.err = Ok
                /\ state'.last_winner = Some(B)
                /\ state'.current_pot = 0
          /\ (/\ call'.op = "claim_reward" /\ call'.sender = B
              /\ state.last_winner = Some(B))
             => /\ call'.err = Ok
                /\ Len(call'.messages) = 1
                /\ call'.messages[1].amount = 0 ]_vars

\* B, alone with a record of one unit and drawn as winner, has claimed
ScenarioTwoStakersWitness ==
    /\ call.op = "claim_reward" /\ call.err = Ok
    /\ DOMAIN STAKERS = {call.sender}
    /\ STAKERS[call.sender].nft_count = 1
    /\ state.stakers = {call.sender}
    /\ state.total_staked = 1
    /\ seconds(block_time) >= StakingPeriod
    /\ call.messages[1].amount = 0

\* C20: an admin's draw fails with NoStakersToDraw exactly when total_staked
\* is 0; whenever a unit is still staked, also after partial unstakes, the
\* admin's draw succeeds.
DrawFailsIffNothingStaked ==
    [][ (call'.op = "draw_winner" /\ call'.sender = CONFIG.admin)
        => /\ call'.err = NoStakersToDraw <=> state.total_staked = 0
           /\ state.total_staked > 0 => call'.err = Ok ]_vars

\* C13: the eligible-stakers query at block time now returns exactly the
\* (account, record) pairs of the stored records with staked_at + 7 days <= now,
\* in ascending order of account, and changes no state; the result is thus
\* fixed by the state and now.
EligibleQueryExact ==
    [][ call'.op = "get_eligible_stakers" =>
          LET r == call'.eligible
              due == { a \in DOMAIN STAKERS :
                         TsLeq(plus_seconds(STAKERS[a].staked_at, StakingPeriod), block_time') }
          IN  /\ call'.err = Ok
              /\ state' = state /\ STAKERS' = STAKERS /\ CONFIG' = CONFIG
              /\ { r[i][1] : i \in DOMAIN r } = due
              /\ \A i \in DOMAIN r : r[i][1] \in DOMAIN STAKERS /\ r[i][2] = STAKERS[r[i][1]]
              /\ \A i, j \in DOMAIN r : i < j => r[i][1] < r[j][1] ]_vars

\* a query has listed both accounts, on the very end of the period of one
EligibleQueryExactWitness ==
    /\ call.op = "get_eligible_stakers"
    /\ Len(call.eligible) = 2
    /\ \E i \in DOMAIN call.eligible :
         plus_seconds(call.eligible[i][2].staked_at, StakingPeriod) = block_time
====
